---- MODULE Spec2Model ----
(***************************************************************************)
(* Model of scripts/process_icloud_recording.py: the recording pipeline    *)
(* orchestrator (main, process_via_ssh, FileLock, process_transcript_to_url*)
(* and cleanup_files) run by independently started processes that share    *)
(* the local working directory (lock file, recent-transcript cache,        *)
(* staging) and the remote host.                                           *)
(*                                                                         *)
(* Fault model: every external command (ssh, scp, open, the reachability   *)
(* probe) either succeeds or fails; shutil.move may fail; os.open of the   *)
(* lock file, local reads and writes and os.remove of an existing file     *)
(* succeed.  The local working directory and the remote one are different  *)
(* directories (the remote host is another machine).  The url file, which  *)
(* process_transcript_to_url writes and cleanup_files removes together     *)
(* with the local transcript, is not a variable of its own.                *)
(*                                                                         *)
(* The extraction engine (create_omnifocus_url and the detectors it calls) *)
(* is modelled on its own, over utterances of a few words: EngineSpec.     *)
(***************************************************************************)
EXTENDS Integers, Sequences, FiniteSets, TLC

\* ---------------------------------------------------------------- bounds
Procs == {"p1", "p2"}          \* independently started orchestrator processes
RecSeq == <<"r1", "r2">>       \* recordings (identity = filename), in name order
Recs == {RecSeq[i] : i \in 1 .. Len(RecSeq)}
MaxTime == 60                  \* the clock stops advancing here
TickStep == 60                 \* seconds per clock step

\* A transcript is a sequence of text lines; TextAB is a two-line transcript.
TextA == <<"a">>
TextAB == <<"a", "b">>
Texts == {TextA, TextAB}
\* the transcript of a recording without speech: one empty line
TextNone == <<"">>
\* another one-line transcript
TextB == <<"b">>
AllTexts == Texts \cup {TextNone, TextB}
\* the clock can also advance by half a step
HalfStep == TickStep \div 2

NoRec == "none"
NoProc == "none"
NoBar == -1                    \* marks a cache-file line without a '|'
Never == 0 - 1                 \* this text was not recorded yet
Inodes == 1 .. (Cardinality(Procs) + 1)

\* ---- bounds of the extraction engine (create_omnifocus_url and its callees)
MaxWords == 3                  \* longest utterance, in words
Runs == {1, 2}                 \* process runs that build a command for the same utterance
Seeds == {1, 2}                \* string-hash seeds a process run can start with
\* An utterance is a sequence of lower-case words separated by single spaces,
\* without punctuation.  Two vocabularies: one about dates, one about tasks.
Weekdays == <<"monday", "tuesday", "wednesday", "thursday", "friday", "saturday", "sunday">>
DateWords == {"defer", "on", "next", "this", "today", "tomorrow", "5pm", "call"}
                 \cup {Weekdays[i] : i \in 1 .. Len(Weekdays)}
TaskWords == {"buy", "milk", "eggs", "call", "note", "with", "in", "project", "alpha",
              "urgent", "work", "done"}
Words == DateWords \cup TaskWords
Utterances(W) == UNION {[1 .. n -> W] : n \in 0 .. MaxWords}
Nothing == <<>>                \* None, and the empty string

VARIABLES
    now,            \* time.time()
    text,           \* the transcript the backend produces for each recording
    icloud,         \* audio files in the cloud-synced drop location
    staging,        \* audio files in the local TEMP_DIR
    remoteAudio,    \* audio files in the remote TEMP_DIR
    remoteTx,       \* <rec>_transcript.txt in the remote TEMP_DIR
    localTx,        \* <rec>_transcript.txt in the local TEMP_DIR
    cacheFile,      \* lines of TEMP_DIR/.recent_transcripts
    lockPath,       \* inode LOCK_FILE names, 0 when the file does not exist
    flockOwner,     \* per inode: the process whose descriptor holds the flock
    pc,             \* per process: position in main / process_via_ssh
    cur,            \* per process: audio_file / audio_filename being handled
    todoI,          \* per process: rest of glob.glob(AUDIO_FILE_PATTERN)
    todoR,          \* per process: rest of the remote listing
    origin,         \* per process: which loop called process_via_ssh
    tempSet,        \* per process: temp_audio_file is not None
    lock_fd,        \* per process: FileLock.lock_fd (inode it refers to), 0 = None
    fdOpen,         \* per process: lock_fd is an open descriptor
    entered,        \* per process: what FileLock.__enter__ returned
    recent,         \* per process: recent_transcripts (dict, insertion order)
    curTime,        \* per process: current_time
    result,         \* per process: value process_via_ssh is returning
    exitPath,       \* per process: where the with-block of process_via_ssh ended
    ops,            \* per process: collaborators this invocation has invoked
    failStage,      \* per process: which step of the local transfer raised
    restoreFailed,  \* per process: the move back to the drop location failed
    handled,        \* per process and recording: what this discovery cycle did
                    \* with it so far ("no", "skipped", "passed", "failed")
    delivered,      \* texts of commands the task manager accepted
    lastRecorded,   \* per text: current_time of the latest processing that
                    \* recorded it in the cache and went on to dispatch
    failedDispatch, \* recordings for which a dispatch failed
    track,          \* whether handled is being recorded (fixed at the start)
    utter,          \* the transcript text handed to the extraction engine
    weekday,        \* datetime.now().weekday() of the day of the run (0 = Monday)
    caller,         \* "pipeline": process_transcript_to_url builds the command;
                    \* "direct": create_omnifocus_url is called with a project
    seed,           \* per run: the string-hash seed of that process
    epc,            \* per run: "off", "start" or "built"
    params,         \* per run: the parameters of the command, in insertion order
    url             \* per run: the command URL

fsVars == <<icloud, staging, remoteAudio, remoteTx, localTx>>
lockVars == <<lockPath, flockOwner, lock_fd, fdOpen, entered>>
cacheVars == <<cacheFile, recent, curTime>>
loopVars == <<todoI, todoR, origin, tempSet, failStage, restoreFailed, handled>>
histVars == <<delivered, lastRecorded, failedDispatch>>
invVars == <<result, exitPath, ops>>
engineVars == <<utter, weekday, caller, seed, epc, params, url>>
otherVars == <<track, engineVars>>
vars == <<now, text, pc, cur, fsVars, lockVars, cacheVars, loopVars, histVars, invVars,
          otherVars>>

\* ------------------------------------------------- recent-transcript cache
Window == 60

\* f.write(f"{ts}|{t}\n") for one entry: a transcript of several lines
\* produces one line with a '|' and then lines without.
FormatEntry(e) ==
    [i \in 1 .. Len(e.t) |-> [ts |-> IF i = 1 THEN e.ts ELSE NoBar, s |-> e.t[i]]]

RECURSIVE FormatCache(_)
FormatCache(d) ==
    IF d = <<>> THEN <<>> ELSE FormatEntry(Head(d)) \o FormatCache(Tail(d))

DictHas(d, k) == \E i \in 1 .. Len(d) : d[i].t = k

\* d[k] = v on a dict: an existing key keeps its position
DictPut(d, k, v) ==
    IF DictHas(d, k)
    THEN [i \in 1 .. Len(d) |-> IF d[i].t = k THEN [t |-> k, ts |-> v] ELSE d[i]]
    ELSE Append(d, [t |-> k, ts |-> v])

\* the loading loop: line.strip().split('|', 1); a line without '|' raises
\* ValueError, which ends the loop and keeps what was loaded so far
RECURSIVE ParseCache(_, _)
ParseCache(lines, acc) ==
    IF lines = <<>> THEN acc
    ELSE IF Head(lines).ts = NoBar THEN acc
    ELSE ParseCache(Tail(lines), DictPut(acc, <<Head(lines).s>>, Head(lines).ts))

IsFresh(e, t) == t - e.ts < Window

Prune(d, t) == SelectSeq(d, LAMBDA e : IsFresh(e, t))

\* ------------------------------------------------------------------ Init
\* the orchestrator processes that have been started
started == {p \in Procs : pc[p] # "off"}

\* nothing staged, locked, cached, scheduled or delivered yet
FreshState ==
    /\ staging = {} /\ remoteTx = {} /\ localTx = {}
    /\ cacheFile = <<>>
    /\ lockPath = 0
    /\ flockOwner = [i \in Inodes |-> NoProc]
    /\ cur = [p \in Procs |-> NoRec]
    /\ todoI = [p \in Procs |-> {}]
    /\ todoR = [p \in Procs |-> {}]
    /\ origin = [p \in Procs |-> "none"]
    /\ tempSet = [p \in Procs |-> FALSE]
    /\ lock_fd = [p \in Procs |-> 0]
    /\ fdOpen = [p \in Procs |-> FALSE]
    /\ entered = [p \in Procs |-> FALSE]
    /\ recent = [p \in Procs |-> <<>>]
    /\ curTime = [p \in Procs |-> 0]
    /\ result = [p \in Procs |-> FALSE]
    /\ exitPath = [p \in Procs |-> "none"]
    /\ ops = [p \in Procs |-> {}]
    /\ failStage = [p \in Procs |-> "none"]
    /\ restoreFailed = [p \in Procs |-> FALSE]
    /\ handled = [p \in Procs |-> [r \in Recs |-> "no"]]
    /\ delivered = {}
    /\ lastRecorded = [x \in AllTexts |-> Never]
    /\ failedDispatch = {}

\* the extraction engine is not run
EngineOff ==
    /\ utter = Nothing
    /\ weekday = 0
    /\ caller = "pipeline"
    /\ seed = [k \in Runs |-> 1]
    /\ epc = [k \in Runs |-> "off"]
    /\ params = [k \in Runs |-> <<>>]
    /\ url = [k \in Runs |-> ""]

\* TS: the transcripts the backend can produce; tr: the value of track
InitState(TS, tr) ==
    /\ now = 0
    /\ track = tr
    /\ \E S \in {{"p1"}, Procs} : pc = [p \in Procs |-> IF p \in S THEN "sleep" ELSE "off"]
    /\ text \in [Recs -> TS]
    /\ \E place \in [Recs -> {"icloud", "remote", "absent"}] :
         /\ Cardinality(started) = 1 => \A r \in Recs : place[r] # "absent"
         /\ Cardinality(started) > 1 =>
               /\ place = [r \in Recs |-> IF r = RecSeq[1] THEN "icloud" ELSE "absent"]
               /\ text = [r \in Recs |-> TextA]
         /\ icloud = {r \in Recs : place[r] = "icloud"}
         /\ remoteAudio = {r \in Recs : place[r] = "remote"}
    /\ FreshState
    /\ EngineOff

Init == InitState(Texts, FALSE)

\* ------------------------------------------------------------------ clock
Tick ==
    /\ now + TickStep <= MaxTime
    /\ now' = now + TickStep
    /\ UNCHANGED <<text, pc, cur, fsVars, lockVars, cacheVars, loopVars, histVars, invVars>>
    /\ UNCHANGED otherVars

\* ------------------------------------------------------------------ main
Set(f, p, v) == [f EXCEPT ![p] = v]

\* the cycle of process p has come to outcome v for recording r
Mark(p, r, v) == IF track THEN Set(handled, p, [handled[p] EXCEPT ![r] = v]) ELSE handled

\* while True: ... for audio_file in glob.glob(AUDIO_FILE_PATTERN)
main_glob(p) ==
    /\ pc[p] = "sleep"
    /\ todoI' = Set(todoI, p, icloud)
    /\ handled' = Set(handled, p, [r \in Recs |-> "no"])   \* a new cycle
    /\ pc' = Set(pc, p, "icloudLoop")
    /\ UNCHANGED <<now, text, cur, fsVars, lockVars, cacheVars, todoR, origin, tempSet,
                   failStage, restoreFailed, histVars, invVars>>
    /\ UNCHANGED otherVars

\* one iteration of the iCloud loop up to move_to_temp: the stability check
\* and the reachability probe
main_icloud_next(p) ==
    /\ pc[p] = "icloudLoop"
    /\ \/ /\ todoI[p] = {}
          /\ pc' = Set(pc, p, "remoteScan")
          /\ cur' = Set(cur, p, NoRec)
          /\ UNCHANGED <<todoI, handled>>
       \/ \E f \in todoI[p] :
            /\ todoI' = Set(todoI, p, todoI[p] \ {f})
            /\ \/ /\ f \notin icloud          \* os.path.getsize raises OSError
                  /\ cur' = Set(cur, p, NoRec)
                  /\ handled' = Mark(p, f, "skipped")
                  /\ UNCHANGED pc
               \/ /\ f \in icloud             \* the size changed during the wait
                  /\ cur' = Set(cur, p, NoRec)
                  /\ handled' = Mark(p, f, "skipped")
                  /\ UNCHANGED pc
               \/ /\ f \in icloud             \* stable, can_connect_ssh() is False
                  /\ cur' = Set(cur, p, NoRec)
                  /\ handled' = Mark(p, f, "skipped")
                  /\ UNCHANGED pc
               \/ /\ f \in icloud             \* stable and reachable
                  /\ cur' = Set(cur, p, f)
                  /\ handled' = Mark(p, f, "passed")
                  /\ pc' = Set(pc, p, "move")
    /\ tempSet' = Set(tempSet, p, FALSE)
    /\ failStage' = Set(failStage, p, "none")
    /\ restoreFailed' = Set(restoreFailed, p, FALSE)
    /\ UNCHANGED <<now, text, fsVars, lockVars, cacheVars, todoR, origin, histVars, invVars>>
    /\ UNCHANGED otherVars

\* temp_audio_file = move_to_temp(audio_file)
move_to_temp(p) ==
    /\ pc[p] = "move"
    /\ \/ /\ cur[p] \in icloud
          /\ icloud' = icloud \ {cur[p]}
          /\ staging' = staging \cup {cur[p]}
          /\ tempSet' = Set(tempSet, p, TRUE)
          /\ pc' = Set(pc, p, "scpAudio")
          /\ UNCHANGED <<failStage, handled>>
       \/ /\ failStage' = Set(failStage, p, "move")   \* shutil.move raised
          /\ handled' = Mark(p, cur[p], "failed")
          /\ pc' = Set(pc, p, "restore")
          /\ UNCHANGED <<icloud, staging, tempSet>>
    /\ UNCHANGED <<now, text, cur, remoteAudio, remoteTx, localTx, lockVars,
                   cacheVars, todoI, todoR, origin, restoreFailed, histVars, invVars>>
    /\ UNCHANGED otherVars

\* the existence check in TEMP_DIR and the scp of the audio to the remote host
main_scp_audio(p) ==
    /\ pc[p] = "scpAudio"
    /\ \/ /\ cur[p] \in staging
          /\ remoteAudio' = remoteAudio \cup {cur[p]}
          /\ pc' = Set(pc, p, "verifyAudio")
          /\ UNCHANGED <<failStage, handled>>
       \/ /\ failStage' = Set(failStage, p, "scp")
          /\ handled' = Mark(p, cur[p], "failed")
          /\ pc' = Set(pc, p, "restore")
          /\ UNCHANGED remoteAudio
    /\ UNCHANGED <<now, text, cur, icloud, staging, remoteTx, localTx, lockVars,
                   cacheVars, todoI, todoR, origin, tempSet, restoreFailed, histVars, invVars>>
    /\ UNCHANGED otherVars

\* test -f on the remote host, then the call of process_via_ssh
main_verify_audio(p) ==
    /\ pc[p] = "verifyAudio"
    /\ \/ /\ cur[p] \in remoteAudio
          /\ origin' = Set(origin, p, "icloud")
          /\ pc' = Set(pc, p, "lockOpen")
          /\ UNCHANGED <<failStage, handled>>
       \/ /\ failStage' = Set(failStage, p, "verify")
          /\ handled' = Mark(p, cur[p], "failed")
          /\ pc' = Set(pc, p, "restore")
          /\ UNCHANGED origin
    /\ UNCHANGED <<now, text, cur, fsVars, lockVars, cacheVars, todoI, todoR, tempSet,
                   restoreFailed, histVars, invVars>>
    /\ UNCHANGED otherVars

\* the return of process_via_ssh into the loop that called it
main_after_pvs(p) ==
    /\ pc[p] = "pvsReturn"
    /\ \/ /\ origin[p] = "icloud" /\ result[p]
          /\ pc' = Set(pc, p, "icloudLoop")
          /\ UNCHANGED failStage
       \/ /\ origin[p] = "icloud" /\ ~result[p]     \* raise Exception("Processing failed")
          /\ failStage' = Set(failStage, p, "process")
          /\ pc' = Set(pc, p, "restore")
       \/ /\ origin[p] = "remote"
          /\ pc' = Set(pc, p, "remoteLoop")
          /\ UNCHANGED failStage
    /\ handled' = IF result[p] THEN handled ELSE Mark(p, cur[p], "failed")
    /\ result' = Set(result, p, FALSE)
    /\ exitPath' = Set(exitPath, p, "none")
    /\ ops' = Set(ops, p, {})
    /\ entered' = Set(entered, p, FALSE)
    /\ UNCHANGED <<now, text, cur, fsVars, lockPath, flockOwner, lock_fd, fdOpen, cacheVars,
                   todoI, todoR, origin, tempSet, restoreFailed, histVars>>
    /\ UNCHANGED otherVars

\* main_restore with the staged file deleted instead of moved back
main_restore_deleting(p) ==
    /\ pc[p] = "restore"
    /\ \/ /\ tempSet[p] /\ cur[p] \in staging
          /\ staging' = staging \ {cur[p]}
          /\ UNCHANGED <<icloud, restoreFailed>>
       \/ /\ ~(tempSet[p] /\ cur[p] \in staging)
          /\ UNCHANGED <<icloud, staging, restoreFailed>>
    /\ pc' = Set(pc, p, "icloudLoop")
    /\ UNCHANGED <<now, text, cur, remoteAudio, remoteTx, localTx, lockVars,
                   cacheVars, todoI, todoR, origin, tempSet, failStage, handled, histVars, invVars>>
    /\ UNCHANGED otherVars

\* main_restore with a failing move back raising out of the handler and out
\* of the loop
main_restore_raising(p) ==
    /\ pc[p] = "restore"
    /\ \/ /\ tempSet[p] /\ cur[p] \in staging
          /\ staging' = staging \ {cur[p]}
          /\ icloud' = icloud \cup {cur[p]}
          /\ pc' = Set(pc, p, "icloudLoop")
          /\ UNCHANGED restoreFailed
       \/ /\ tempSet[p] /\ cur[p] \in staging
          /\ restoreFailed' = Set(restoreFailed, p, TRUE)
          /\ pc' = Set(pc, p, "crashed")
          /\ UNCHANGED <<icloud, staging>>
       \/ /\ ~(tempSet[p] /\ cur[p] \in staging)
          /\ pc' = Set(pc, p, "icloudLoop")
          /\ UNCHANGED <<icloud, staging, restoreFailed>>
    /\ UNCHANGED <<now, text, cur, remoteAudio, remoteTx, localTx, lockVars,
                   cacheVars, todoI, todoR, origin, tempSet, failStage, handled, histVars, invVars>>
    /\ UNCHANGED otherVars

\* except Exception: move the staged file back to the drop location
main_restore(p) ==
    /\ pc[p] = "restore"
    /\ \/ /\ tempSet[p] /\ cur[p] \in staging
          /\ staging' = staging \ {cur[p]}
          /\ icloud' = icloud \cup {cur[p]}
          /\ UNCHANGED restoreFailed
       \/ /\ tempSet[p] /\ cur[p] \in staging        \* shutil.move raised
          /\ restoreFailed' = Set(restoreFailed, p, TRUE)
          /\ UNCHANGED <<icloud, staging>>
       \/ /\ ~(tempSet[p] /\ cur[p] \in staging)
          /\ UNCHANGED <<icloud, staging, restoreFailed>>
    /\ pc' = Set(pc, p, "icloudLoop")
    /\ UNCHANGED <<now, text, cur, remoteAudio, remoteTx, localTx, lockVars,
                   cacheVars, todoI, todoR, origin, tempSet, failStage, handled, histVars, invVars>>
    /\ UNCHANGED otherVars

\* main_remote_scan leaving out the recordings whose dispatch failed
main_remote_scan_skipping_failed(p) ==
    /\ pc[p] = "remoteScan"
    /\ \/ /\ todoR' = Set(todoR, p, remoteAudio \ failedDispatch)
          /\ pc' = Set(pc, p, "remoteLoop")
       \/ /\ pc' = Set(pc, p, "sleep")
          /\ UNCHANGED todoR
    /\ UNCHANGED <<now, text, cur, fsVars, lockVars, cacheVars, todoI, origin, tempSet,
                   failStage, restoreFailed, handled, histVars, invVars>>
    /\ UNCHANGED otherVars

\* ls -1 TEMP_DIR/audio_recording_*.m4a on the remote host
main_remote_scan(p) ==
    /\ pc[p] = "remoteScan"
    /\ \/ /\ todoR' = Set(todoR, p, remoteAudio)
          /\ pc' = Set(pc, p, "remoteLoop")
       \/ /\ pc' = Set(pc, p, "sleep")               \* the ssh command failed
          /\ UNCHANGED todoR
    /\ UNCHANGED <<now, text, cur, fsVars, lockVars, cacheVars, todoI, origin, tempSet,
                   failStage, restoreFailed, handled, histVars, invVars>>
    /\ UNCHANGED otherVars

\* ls lists in name order
FirstOf(S) == RecSeq[CHOOSE i \in 1 .. Len(RecSeq) :
                  RecSeq[i] \in S /\ \A j \in 1 .. Len(RecSeq) : RecSeq[j] \in S => i <= j]

\* for remote_file in output.strip().split('\n'): process_via_ssh(audio_filename)
main_remote_next(p) ==
    /\ pc[p] = "remoteLoop"
    /\ \/ /\ todoR[p] = {}
          /\ pc' = Set(pc, p, "sleep")
          /\ cur' = Set(cur, p, NoRec)
          /\ UNCHANGED <<todoR, origin>>
       \/ /\ todoR[p] # {}
          /\ cur' = Set(cur, p, FirstOf(todoR[p]))
          /\ todoR' = Set(todoR, p, todoR[p] \ {FirstOf(todoR[p])})
          /\ origin' = Set(origin, p, "remote")
          /\ pc' = Set(pc, p, "lockOpen")
    /\ UNCHANGED <<now, text, fsVars, lockVars, cacheVars, todoI, tempSet, failStage,
                   restoreFailed, handled, histVars, invVars>>
    /\ UNCHANGED otherVars

\* ------------------------------------------------------------ FileLock
Live(i) == lockPath = i \/ \E q \in Procs : fdOpen[q] /\ lock_fd[q] = i

FreshInode == CHOOSE i \in Inodes : ~Live(i) /\ \A j \in Inodes : ~Live(j) => i <= j

HoldsLock(p) == \E i \in Inodes : flockOwner[i] = p

\* process_via_ssh is entered; FileLock(LOCK_FILE).__enter__:
\* os.open(self.lock_file, os.O_RDWR | os.O_CREAT)
FileLock_enter_open(p) ==
    /\ pc[p] = "lockOpen"
    /\ LET i == IF lockPath # 0 THEN lockPath ELSE FreshInode IN
         /\ lockPath' = i
         /\ lock_fd' = Set(lock_fd, p, i)
    /\ fdOpen' = Set(fdOpen, p, TRUE)
    /\ pc' = Set(pc, p, "lockFlock")
    /\ UNCHANGED <<now, text, cur, fsVars, flockOwner, entered, cacheVars, loopVars,
                   histVars, invVars>>
    /\ UNCHANGED otherVars

\* fcntl.flock(self.lock_fd, LOCK_EX | LOCK_NB); on failure the descriptor is
\* closed and False returned.  `with FileLock(LOCK_FILE):` binds nothing and
\* tests nothing, so the block is entered either way.
FileLock_enter_flock(p) ==
    /\ pc[p] = "lockFlock"
    /\ \/ /\ flockOwner[lock_fd[p]] = NoProc
          /\ flockOwner' = Set(flockOwner, lock_fd[p], p)
          /\ entered' = Set(entered, p, TRUE)
          /\ UNCHANGED fdOpen
       \/ /\ flockOwner[lock_fd[p]] # NoProc
          /\ fdOpen' = Set(fdOpen, p, FALSE)
          /\ entered' = Set(entered, p, FALSE)
          /\ UNCHANGED flockOwner
    /\ pc' = Set(pc, p, "transcribe")
    /\ UNCHANGED <<now, text, cur, fsVars, lockPath, lock_fd, cacheVars, loopVars,
                   histVars, invVars>>
    /\ UNCHANGED otherVars

\* the block of the with statement is left with value v by exit path e
LeaveBlock(p, e, v) ==
    /\ exitPath' = Set(exitPath, p, e)
    /\ result' = Set(result, p, v)
    /\ pc' = Set(pc, p, "lockExit")

\* FileLock_exit_unlock with the release skipped when the block is left by a
\* return of the failure result
FileLock_exit_unlock_on_success_only(p) ==
    /\ pc[p] = "lockExit"
    /\ \/ /\ fdOpen[p] /\ result[p]
          /\ flockOwner' = [i \in Inodes |->
                              IF i = lock_fd[p] /\ flockOwner[i] = p THEN NoProc
                              ELSE flockOwner[i]]
          /\ pc' = Set(pc, p, "lockClose")
          /\ UNCHANGED <<result, lock_fd>>
       \/ /\ fdOpen[p] /\ ~result[p]
          /\ pc' = Set(pc, p, "pvsReturn")
          /\ UNCHANGED <<result, lock_fd, flockOwner>>
       \/ /\ ~fdOpen[p]
          /\ result' = Set(result, p, FALSE)
          /\ lock_fd' = Set(lock_fd, p, 0)
          /\ pc' = Set(pc, p, "pvsReturn")
          /\ UNCHANGED flockOwner
    /\ UNCHANGED <<now, text, cur, fsVars, lockPath, fdOpen, entered, cacheVars, loopVars,
                   histVars, exitPath, ops>>
    /\ UNCHANGED otherVars

\* FileLock.__exit__: fcntl.flock(self.lock_fd, LOCK_UN).  lock_fd is still
\* set after a failed __enter__, but closed: flock raises OSError, which
\* replaces the block's outcome and is caught by process_via_ssh.
FileLock_exit_unlock(p) ==
    /\ pc[p] = "lockExit"
    /\ \/ /\ fdOpen[p]
          /\ flockOwner' = [i \in Inodes |->
                              IF i = lock_fd[p] /\ flockOwner[i] = p THEN NoProc
                              ELSE flockOwner[i]]
          /\ pc' = Set(pc, p, "lockClose")
          /\ UNCHANGED <<result, lock_fd>>
       \/ /\ ~fdOpen[p]
          /\ result' = Set(result, p, FALSE)
          /\ lock_fd' = Set(lock_fd, p, 0)
          /\ pc' = Set(pc, p, "pvsReturn")
          /\ UNCHANGED flockOwner
    /\ UNCHANGED <<now, text, cur, fsVars, lockPath, fdOpen, entered, cacheVars, loopVars,
                   histVars, exitPath, ops>>
    /\ UNCHANGED otherVars

\* os.close(self.lock_fd)
FileLock_exit_close(p) ==
    /\ pc[p] = "lockClose"
    /\ fdOpen' = Set(fdOpen, p, FALSE)
    /\ flockOwner' = [i \in Inodes |->
                        IF i = lock_fd[p] /\ flockOwner[i] = p THEN NoProc
                        ELSE flockOwner[i]]
    /\ pc' = Set(pc, p, "lockRemove")
    /\ UNCHANGED <<now, text, cur, fsVars, lockPath, lock_fd, entered, cacheVars, loopVars,
                   histVars, invVars>>
    /\ UNCHANGED otherVars

\* FileLock_exit_remove followed by the cleanup whatever the block returned
FileLock_exit_remove_then_cleanup(p) ==
    /\ pc[p] = "lockRemove"
    /\ lockPath' = 0
    /\ lock_fd' = Set(lock_fd, p, 0)
    /\ pc' = Set(pc, p, "cleanupLocal")
    /\ UNCHANGED <<now, text, cur, fsVars, flockOwner, fdOpen, entered, cacheVars, loopVars,
                   histVars, invVars>>
    /\ UNCHANGED otherVars

\* FileLock_exit_remove that leaves the lock file in place
FileLock_exit_keep_file(p) ==
    /\ pc[p] = "lockRemove"
    /\ lock_fd' = Set(lock_fd, p, 0)
    /\ pc' = Set(pc, p, IF result[p] THEN "cleanupLocal" ELSE "pvsReturn")
    /\ UNCHANGED <<now, text, cur, fsVars, lockPath, flockOwner, fdOpen, entered, cacheVars,
                   loopVars, histVars, invVars>>
    /\ UNCHANGED otherVars

\* os.remove(self.lock_file), OSError ignored; then the block's return
\* statement takes effect, or control reaches the cleanup after the block
FileLock_exit_remove(p) ==
    /\ pc[p] = "lockRemove"
    /\ lockPath' = 0
    /\ lock_fd' = Set(lock_fd, p, 0)
    /\ pc' = Set(pc, p, IF result[p] THEN "cleanupLocal" ELSE "pvsReturn")
    /\ UNCHANGED <<now, text, cur, fsVars, flockOwner, fdOpen, entered, cacheVars, loopVars,
                   histVars, invVars>>
    /\ UNCHANGED otherVars

\* ------------------------------------------------------ process_via_ssh
\* run_ssh_command(process_cmd): transcribe.py writes the remote transcript
pvs_transcribe(p) ==
    /\ pc[p] = "transcribe"
    /\ ops' = Set(ops, p, ops[p] \cup {"transcribe"})
    /\ \/ /\ cur[p] \in remoteAudio
          /\ remoteTx' = remoteTx \cup {cur[p]}
          /\ pc' = Set(pc, p, "verifyTx")
          /\ UNCHANGED <<result, exitPath>>
       \/ /\ LeaveBlock(p, "transcribe", FALSE)
          /\ UNCHANGED remoteTx
    /\ UNCHANGED <<now, text, cur, icloud, staging, remoteAudio, localTx, lockVars,
                   cacheVars, loopVars, histVars>>
    /\ UNCHANGED otherVars

\* test -f of the remote transcript
pvs_verify_transcript(p) ==
    /\ pc[p] = "verifyTx"
    /\ ops' = Set(ops, p, ops[p] \cup {"verify"})
    /\ \/ /\ cur[p] \in remoteTx
          /\ pc' = Set(pc, p, "scpTx")
          /\ UNCHANGED <<result, exitPath>>
       \/ LeaveBlock(p, "verify", FALSE)
    /\ UNCHANGED <<now, text, cur, fsVars, lockVars, cacheVars, loopVars, histVars>>
    /\ UNCHANGED otherVars

\* scp of the transcript back to the local TEMP_DIR
pvs_scp_transcript(p) ==
    /\ pc[p] = "scpTx"
    /\ ops' = Set(ops, p, ops[p] \cup {"retrieve"})
    /\ \/ /\ cur[p] \in remoteTx
          /\ localTx' = localTx \cup {cur[p]}
          /\ pc' = Set(pc, p, "readCache")
          /\ UNCHANGED <<result, exitPath>>
       \/ /\ LeaveBlock(p, "retrieve", FALSE)
          /\ UNCHANGED localTx
    /\ UNCHANGED <<now, text, cur, icloud, staging, remoteAudio, remoteTx, lockVars,
                   cacheVars, loopVars, histVars>>
    /\ UNCHANGED otherVars

\* ------------------------------------------- process_transcript_to_url
\* the local existence check, the read of the transcript, and the load,
\* pruning and duplicate test of the recent-transcript cache
ptu_read(p) ==
    /\ pc[p] = "readCache"
    /\ \/ /\ cur[p] \notin localTx
          /\ LeaveBlock(p, "local", FALSE)
          /\ UNCHANGED <<recent, curTime, ops>>
       \/ /\ cur[p] \in localTx
          /\ ops' = Set(ops, p, ops[p] \cup {"cache"})
          /\ LET loaded == Prune(ParseCache(cacheFile, <<>>), now) IN
               \/ /\ DictHas(loaded, text[cur[p]])
                  /\ LeaveBlock(p, "duplicate", TRUE)
                  /\ UNCHANGED <<recent, curTime>>
               \/ /\ ~DictHas(loaded, text[cur[p]])
                  /\ recent' = Set(recent, p, DictPut(loaded, text[cur[p]], now))
                  /\ curTime' = Set(curTime, p, now)
                  /\ pc' = Set(pc, p, "saveCache")
                  /\ UNCHANGED <<result, exitPath>>
    /\ UNCHANGED <<now, text, cur, fsVars, lockVars, cacheFile, loopVars, histVars>>
    /\ UNCHANGED otherVars

\* the rewrite of the cache file
ptu_save(p) ==
    /\ pc[p] = "saveCache"
    /\ cacheFile' = FormatCache(recent[p])
    /\ recent' = Set(recent, p, <<>>)
    /\ lastRecorded' = Set(lastRecorded, text[cur[p]], curTime[p])
    /\ curTime' = Set(curTime, p, 0)
    /\ pc' = Set(pc, p, "dispatch")
    /\ UNCHANGED <<now, text, cur, fsVars, lockVars, loopVars, delivered, failedDispatch,
                   invVars>>
    /\ UNCHANGED otherVars

\* the command is built and written to url_file, then handed to the task
\* manager: subprocess.run(['open', omnifocus_url], check=True)
ptu_dispatch(p) ==
    /\ pc[p] = "dispatch"
    /\ ops' = Set(ops, p, ops[p] \cup {"dispatch"})
    /\ \/ /\ delivered' = delivered \cup {text[cur[p]]}
          /\ LeaveBlock(p, "dispatched", TRUE)
          /\ UNCHANGED failedDispatch
       \/ /\ failedDispatch' = failedDispatch \cup {cur[p]}
          /\ LeaveBlock(p, "dispatch", FALSE)
          /\ UNCHANGED delivered
    /\ UNCHANGED <<now, text, cur, fsVars, lockVars, cacheVars, loopVars, lastRecorded>>
    /\ UNCHANGED otherVars

\* -------------------------------------------------------- cleanup_files
\* os.remove of the local transcript and url file
cleanup_local(p) ==
    /\ pc[p] = "cleanupLocal"
    /\ localTx' = localTx \ {cur[p]}
    /\ ops' = Set(ops, p, ops[p] \cup {"cleanup"})
    /\ pc' = Set(pc, p, "cleanupRemote")
    /\ UNCHANGED <<now, text, cur, icloud, staging, remoteAudio, remoteTx, lockVars,
                   cacheVars, loopVars, histVars, result, exitPath>>
    /\ UNCHANGED otherVars

\* rm -f of the remote audio and transcript; a failure is only logged
cleanup_remote(p) ==
    /\ pc[p] = "cleanupRemote"
    /\ \/ /\ remoteAudio' = remoteAudio \ {cur[p]}
          /\ remoteTx' = remoteTx \ {cur[p]}
          /\ UNCHANGED ops
       \/ /\ ops' = Set(ops, p, ops[p] \cup {"cleanupFailed"})   \* logged as a warning
          /\ UNCHANGED <<remoteAudio, remoteTx>>
    /\ pc' = Set(pc, p, "pvsReturn")
    /\ UNCHANGED <<now, text, cur, icloud, staging, localTx, lockVars,
                   cacheVars, loopVars, histVars, result, exitPath>>
    /\ UNCHANGED otherVars

\* --------------------------------------------------------- specification
Step(p) ==
    \/ main_glob(p)
    \/ main_icloud_next(p)
    \/ move_to_temp(p)
    \/ main_scp_audio(p)
    \/ main_verify_audio(p)
    \/ FileLock_enter_open(p)
    \/ FileLock_enter_flock(p)
    \/ pvs_transcribe(p)
    \/ pvs_verify_transcript(p)
    \/ pvs_scp_transcript(p)
    \/ ptu_read(p)
    \/ ptu_save(p)
    \/ ptu_dispatch(p)
    \/ FileLock_exit_unlock(p)
    \/ FileLock_exit_close(p)
    \/ FileLock_exit_remove(p)
    \/ cleanup_local(p)
    \/ cleanup_remote(p)
    \/ main_after_pvs(p)
    \/ main_restore(p)
    \/ main_remote_scan(p)
    \/ main_remote_next(p)

Next == Tick \/ \E p \in Procs : Step(p)

Spec == Init /\ [][Next]_vars

\* one orchestrator process alone
InitSolo == Init /\ pc["p2"] = "off"

SpecSolo == InitSolo /\ [][Next]_vars

\* one process, recordings with the same one-line transcript, and weak fairness of every started process: the
\* operating system keeps scheduling it and every command it runs returns
InitLive ==
    /\ InitSolo
    /\ text = [r \in Recs |-> TextA]

LiveSpec == InitLive /\ [][Next]_vars /\ \A p \in Procs : WF_vars(Step(p))

\* one process, with what each discovery cycle did with each recording recorded
InitCycle == InitState({TextA}, TRUE) /\ pc["p2"] = "off"

CycleSpec == InitCycle /\ [][Next]_vars

\* one process, and recordings without speech among the recordings
InitQuiet == InitState({TextNone, TextA}, FALSE) /\ pc["p2"] = "off"

QuietSpec == InitQuiet /\ [][Next]_vars

\* half a clock step
TickHalf ==
    /\ now + HalfStep <= MaxTime
    /\ now' = now + HalfStep
    /\ UNCHANGED <<text, pc, cur, fsVars, lockVars, cacheVars, loopVars, histVars, invVars>>
    /\ UNCHANGED otherVars

\* one process, two recordings with different one-line transcripts, and a
\* clock that reads 0, half a window and a whole window
InitFine ==
    /\ InitState({TextA, TextB}, FALSE)
    /\ pc["p2"] = "off"
    /\ text = [r \in Recs |-> IF r = RecSeq[1] THEN TextA ELSE TextB]

FineNext == TickHalf \/ Next

FineSpec == InitFine /\ [][FineNext]_vars

\* ================================================================ claims
\* positions inside the with-block of process_via_ssh
Critical == {"transcribe", "verifyTx", "scpTx", "readCache", "saveCache", "dispatch"}

InCritical(p) == pc[p] \in Critical

\* collaborators the critical section invokes
Collaborators == {"transcribe", "verify", "retrieve", "cache", "dispatch"}

Abs(n) == IF n < 0 THEN -n ELSE n

\* C1: in every reachable state at most one process is inside the critical
\* section of process_via_ssh (transcription, retrieval, extraction, dispatch).
C1_MutualExclusion ==
    \A p, q \in started : p # q => ~(InCritical(p) /\ InCritical(q))

\* C2: an invocation of process_via_ssh whose FileLock.__enter__ could not
\* take the lock invokes no transcription, retrieval, cache access or
\* dispatch, and returns the failure result.
C2_AbandonOnContention ==
    \A p \in started :
        (pc[p] \in Critical \cup {"lockExit", "pvsReturn"} /\ ~entered[p]) =>
            /\ ops[p] \cap Collaborators = {}
            /\ ~result[p]

\* C3: a processing records a text in the cache and goes on to dispatch a
\* command for it only if no processing of the same text did so less than 60
\* seconds away, and a transcript whose text was recorded before is skipped as
\* a duplicate only if that was less than 60 seconds before.
C3_OneDispatchPerWindow ==
    [][\A p \in started :
          /\ (pc[p] = "saveCache" /\ pc'[p] = "dispatch") =>
                \/ lastRecorded[text[cur[p]]] = Never
                \/ Abs(curTime[p] - lastRecorded[text[cur[p]]]) >= Window
          /\ (pc[p] = "readCache" /\ exitPath'[p] = "duplicate"
                /\ lastRecorded[text[cur[p]]] # Never) =>
                now - lastRecorded[text[cur[p]]] < Window]_vars

\* C5: cleanup_files runs on a recording's artifacts only after a command
\* built from its transcript text was accepted by the task manager.
C5_CleanupOnlyAfterDelivery ==
    \A p \in started :
        (pc[p] = "cleanupRemote" \/ "cleanup" \in ops[p]) => text[cur[p]] \in delivered

\* positions of main and of process_via_ssh outside the with-block
Outside == {"sleep", "icloudLoop", "move", "scpAudio", "verifyAudio", "restore",
            "remoteScan", "remoteLoop", "lockOpen", "cleanupLocal", "cleanupRemote",
            "pvsReturn"}

\* C6: a process that is outside the with-block of process_via_ssh (it has
\* returned, is cleaning up, or is anywhere in the discovery loop) holds no
\* flock and has no open lock descriptor.
C6_LockReleasedOnReturn ==
    \A p \in started : pc[p] \in Outside => ~HoldsLock(p) /\ ~fdOpen[p]

C6_Witness ==
    \E p \in started : pc[p] = "pvsReturn" /\ entered[p] /\ exitPath[p] = "dispatch"

\* C7 as claimed: the handler of a failed copy or remote presence check always
\* leaves the recording in the drop location and not in staging.
C7_AlwaysRestored ==
    [][\A p \in started :
          (pc[p] = "restore" /\ pc'[p] # "restore" /\ tempSet[p]
             /\ failStage[p] \in {"scp", "verify"}) =>
                (cur[p] \in icloud' /\ cur[p] \notin staging')]_vars

\* C7 as amended: the handler of a failed copy or remote presence check leaves
\* the recording in the drop location and not in staging, unless the move back
\* itself fails.
C7_RestoredUnlessMoveFails ==
    [][\A p \in started :
          (pc[p] = "restore" /\ pc'[p] # "restore" /\ tempSet[p]
             /\ failStage[p] \in {"scp", "verify"}) =>
                \/ cur[p] \in icloud' /\ cur[p] \notin staging'
                \/ restoreFailed'[p]]_vars

C7_Witness ==
    \E p \in started :
        /\ pc[p] = "icloudLoop" /\ tempSet[p] /\ failStage[p] = "verify"
        /\ ~restoreFailed[p]
        /\ cur[p] \in icloud /\ cur[p] \notin staging

\* C8: an invocation of process_via_ssh that failed at transcription, remote
\* verification, retrieval or dispatch runs no cleanup_files.
C8_NoCleanupOnFailure ==
    \A p \in started :
        exitPath[p] \in {"transcribe", "verify", "retrieve", "dispatch"} =>
            /\ "cleanup" \notin ops[p]
            /\ pc[p] \notin {"cleanupLocal", "cleanupRemote"}

C8_Witness ==
    \E p \in started :
        /\ pc[p] = "pvsReturn" /\ exitPath[p] = "dispatch"
        /\ cur[p] \in remoteAudio /\ cur[p] \in remoteTx /\ cur[p] \in localTx

\* C9: an invocation whose transcript matched a cache entry younger than 60
\* seconds has dispatched nothing, reports success and has run cleanup_files.
C9_DuplicateIsCleanedUp ==
    \A p \in started :
        (pc[p] = "pvsReturn" /\ exitPath[p] = "duplicate") =>
            /\ "dispatch" \notin ops[p]
            /\ result[p]
            /\ "cleanup" \in ops[p]

C10_LoopNeverStops ==
    \A p \in Procs :
        /\ (pc[p] # "off") ~> (pc[p] = "sleep")
        /\ (pc[p] = "sleep") ~> (pc[p] = "icloudLoop")

C10_Witness ==
    \E p \in started :
        /\ pc[p] = "sleep"
        /\ failedDispatch # {}
        /\ staging # {}

\* C11: a recording leaves the drop location only by the move of a process
\* whose cycle found it stable and the host reachable, and a cycle that
\* skipped a recording (size changed, inaccessible, host unreachable) does no
\* staging, transfer, lock acquisition or dispatch for it.
C11_SkippedIsLeftAlone ==
    [][/\ \A r \in Recs :
            (r \in icloud /\ r \notin icloud') =>
                \E p \in started : pc[p] = "move" /\ cur[p] = r /\ handled[p][r] = "passed"
       /\ \A p \in started : \A r \in Recs :
            handled[p][r] = "skipped" => cur[p] # r]_vars

\* C19: a command is built and dispatched only in an invocation that has
\* transcribed, verified the remote transcript and retrieved it, whose local
\* transcript exists, and whose transcript is not empty.
C19_DispatchAfterVerifiedTranscript ==
    \A p \in started :
        (pc[p] = "dispatch" \/ "dispatch" \in ops[p]) =>
            /\ {"transcribe", "verify", "retrieve", "cache"} \subseteq ops[p]
            /\ text[cur[p]] # TextNone

\* C20: no invocation of process_via_ssh is started for a recording in the
\* discovery cycle in which its processing has already failed.
C20_NoRetryInSameCycle ==
    [][\A p \in started :
          (pc[p] = "lockOpen" /\ pc'[p] = "lockFlock") =>
              handled[p][cur[p]] # "failed"]_vars

\* ================================================================ engine
\* The extraction engine: create_omnifocus_url and the detectors it calls,
\* over utterances of at most MaxWords words of Words.
\*
\* A text is the sequence of its words; a value (a parameter value, a note, a
\* date) is a sequence of tokens: words and the separators between them.  No
\* word of Words is or contains "folder", "bullet" or "point", and "5pm" is
\* the only word with a digit.

\* ---- substring tests restricted to Words
\* the keywords and cue words that occur inside a word, the word itself included
Inside(w) ==
    {w} \cup (CASE w = "5pm" -> {"pm"}
                [] w = "saturday" -> {"at", "day"}
                [] w = "monday" -> {"on", "day"}
                [] w = "today" -> {"to", "day"}
                [] w = "tomorrow" -> {"to"}
                [] w = "done" -> {"on", "one"}
                [] w = "note" -> {"no"}
                [] w \in {"tuesday", "wednesday", "thursday", "friday", "sunday"} -> {"day"}
                [] OTHER -> {})
\* those that the word ends in, and those that it starts with
EndsIn(w) == {w} \cup (Inside(w) \cap {"pm", "day", "one"})
StartsIn(w) ==
    {w} \cup (CASE w \in {"today", "tomorrow"} -> {"to"} [] w = "note" -> {"no"} [] OTHER -> {})

MinOf(S) == CHOOSE x \in S : \A y \in S : x <= y
MaxOf(S) == CHOOSE x \in S : \A y \in S : x >= y
Rest(t, i) == SubSeq(t, i, Len(t))

\* the positions where the phrase c (a sequence of words) occurs in text t
\* as a substring: its first word ends a word of t, its last word starts one
PhraseAt(t, c) ==
    {i \in 1 .. Len(t) - Len(c) + 1 :
        IF Len(c) = 1 THEN c[1] \in Inside(t[i])
        ELSE /\ c[1] \in EndsIn(t[i])
             /\ c[Len(c)] \in StartsIn(t[i + Len(c) - 1])
             /\ \A j \in 2 .. Len(c) - 1 : t[i + j - 1] = c[j]}
\* keyword in text
KeywordIn(c, t) == PhraseAt(t, c) # {}
\* re.search of a pattern that is a phrase followed by a space: the phrase
\* ends at a word boundary and another word follows
CueAt(t, c) ==
    {i \in 1 .. Len(t) - Len(c) :
        /\ c[1] \in EndsIn(t[i])
        /\ \A j \in 2 .. Len(c) : t[i + j - 1] = c[j]}

\* the words of a text joined by single spaces
RECURSIVE Spaced(_)
Spaced(t) ==
    IF Len(t) = 0 THEN Nothing
    ELSE IF Len(t) = 1 THEN t
    ELSE <<t[1], " ">> \o Spaced(Tail(t))

\* sep.join(vs), vs a sequence of values
RECURSIVE Join(_, _)
Join(vs, sep) ==
    IF Len(vs) = 0 THEN Nothing
    ELSE IF Len(vs) = 1 THEN vs[1]
    ELSE vs[1] \o <<sep>> \o Join(Tail(vs), sep)

\* ---- extract_task_name_and_note
note_patterns ==
    << <<"with", "note">>, <<"add", "note">>, <<"include", "note">>, <<"note">>, <<"list">>,
       <<"bullet">>, <<"point">> >>

\* matched: a note pattern was found; name and note are word sequences, both
\* stripped (note is Nothing for None and for '')
extract_task_name_and_note(t) ==
    LET hits == {j \in 1 .. Len(note_patterns) : PhraseAt(t, note_patterns[j]) # {}}
    IN  IF hits = {} THEN [matched |-> FALSE, name |-> t, note |-> Nothing]
        ELSE LET c == note_patterns[MinOf(hits)]
                 i == MinOf(PhraseAt(t, c))
             IN  [matched |-> TRUE,
                  name |-> SubSeq(t, 1, i - 1),
                  note |-> Rest(t, i + Len(c))]

\* ---- parse_date_time
defer_patterns == {"defer", "start", "begin", "wait"}
is_defer_request(t) == \E c \in defer_patterns : CueAt(t, <<c>>) # {}

\* strftime("%I:%M%p").lower() of the time a word spells
IsTime(w) == w \in {"5pm"}
FormatTime(w) == CASE w = "5pm" -> "05:00pm"

\* time_patterns: "at <time>" first, then a time with am/pm anywhere
time_str(t) ==
    LET at == {i \in CueAt(t, <<"at">>) : IsTime(t[i + 1])}
        any == {i \in 1 .. Len(t) : IsTime(t[i])}
    IN  IF at # {} THEN FormatTime(t[MinOf(at) + 1])
        ELSE IF any # {} THEN FormatTime(t[MinOf(any)])
        ELSE ""

\* Python weekday(): Monday is 0
WeekdayOf(w) == (CHOOSE i \in 1 .. Len(Weekdays) : Weekdays[i] = w) - 1
IsWeekday(w) == \E i \in 1 .. Len(Weekdays) : Weekdays[i] = w

\* days_ahead with the roll to the next week only for a day that has passed
days_ahead_passed(target_day, current_day) ==
    LET d == target_day - current_day
    IN  IF d < 0 THEN d + 7 ELSE d

days_ahead(target_day, current_day) ==
    LET d == target_day - current_day
    IN  IF d <= 0 THEN d + 7 ELSE d

\* the day patterns, in the order they are tried
day_patterns == <<"today", "tomorrow", "next", "on", "this">>
\* where day pattern j matches in t
DayAt(t, j) ==
    IF j <= 2 THEN PhraseAt(t, <<day_patterns[j]>>)
    ELSE {i \in CueAt(t, <<day_patterns[j]>>) : IsWeekday(t[i + 1])}
FirstOr0(S) == IF S = {} THEN 0 ELSE MinOf(S)
\* the first day pattern that matches, 0 if none does
DayPattern(t) == FirstOr0({j \in 1 .. Len(day_patterns) : DayAt(t, j) # {}})
\* the weekday named where that pattern matches first
target_day(t) == WeekdayOf(t[MinOf(DayAt(t, DayPattern(t))) + 1])

\* the date n days after the day of the run, as strftime("%Y-%m-%d") prints it
DateName == <<"D0", "D1", "D2", "D3", "D4", "D5", "D6", "D7", "D8">>
DaysOf(d) == (CHOOSE i \in 1 .. Len(DateName) : DateName[i] = d) - 1
IsDate(d) == \E i \in 1 .. Len(DateName) : DateName[i] = d

\* days from the day of the run to date_str when day pattern j matched first,
\* -1 if there is no date
DaysBy(t, j, current_day) ==
    IF j = 0 THEN 0 - 1
    ELSE IF j = 1 THEN 0
    ELSE IF j = 2 THEN 1
    ELSE days_ahead(target_day(t), current_day)
date_days(t, current_day) == DaysBy(t, DayPattern(t), current_day)

\* date_str (n days ahead, -1 for None) and time_str ("" for None) combined
Combine(n, ts) ==
    IF n >= 0 /\ ts # "" THEN <<DateName[n + 1], " ", ts>>
    ELSE IF n >= 0 THEN <<DateName[n + 1]>>
    ELSE IF ts # "" THEN <<DateName[1], " ", ts>>
    ELSE Nothing
formatted_datetime(t, current_day) == Combine(date_days(t, current_day), time_str(t))

\* the assignment that keeps the value as due also for a defer request
assign_both(f, defer_request) ==
    IF f = Nothing THEN [defer |-> Nothing, due |-> Nothing]
    ELSE IF defer_request THEN [defer |-> f, due |-> f]
    ELSE [defer |-> Nothing, due |-> f]

\* the value goes to defer_date or to due_date
assign_date(f, defer_request) ==
    IF f = Nothing THEN [defer |-> Nothing, due |-> Nothing]
    ELSE IF defer_request THEN [defer |-> f, due |-> Nothing]
    ELSE [defer |-> Nothing, due |-> f]

parse_date_time(t, current_day) ==
    assign_date(formatted_datetime(t, current_day), is_defer_request(t))

\* ---- the other detectors
\* the text after the first match of a cue phrase, Nothing if it does not match
AfterCue(t, c) ==
    IF CueAt(t, c) = {} THEN Nothing ELSE Rest(t, MinOf(CueAt(t, c)) + Len(c))
\* "(?:w )?" in front of a group that needs at least one character
SkipWord(r, w) == IF Len(r) > 1 /\ r[1] = w THEN Tail(r) ELSE r

detect_project(t) ==
    LET under == {i \in CueAt(t, <<"under">>) :
                     \E j \in i + 2 .. Len(t) : "project" \in StartsIn(t[j])}
    IN  IF CueAt(t, <<"in", "project">>) # {}
            THEN SkipWord(AfterCue(t, <<"in", "project">>), "called")
        ELSE IF CueAt(t, <<"to", "project">>) # {}
            THEN AfterCue(t, <<"to", "project">>)
        ELSE IF under # {}
            THEN LET i == MinOf(under)
                     j == MaxOf({k \in i + 2 .. Len(t) : "project" \in StartsIn(t[k])})
                 IN  SubSeq(t, i + 1, j - 1)
        ELSE Nothing

parallel_keywords ==
    { <<"parallel", "tasks">>, <<"parallel", "actions">>,
      <<"can", "be", "done", "in", "parallel">>, <<"can", "be", "done", "simultaneously">>,
      <<"no", "specific", "order">> }
detect_parallel(t) == \E c \in parallel_keywords : KeywordIn(c, t)

flag_keywords ==
    { <<"urgent">>, <<"important">>, <<"priority">>, <<"flag">>, <<"flagged">>,
      <<"high", "priority">>, <<"critical">> }
detect_flag(t) == \E c \in flag_keywords : KeywordIn(c, t)

\* every duration pattern needs digits in front of hour, hr, minute or min
parse_duration(t) == Nothing

\* the folder patterns all need the word "folder"; what is left is the search
\* for a known folder name among the words, in the order of KNOWN_FOLDERS
KNOWN_FOLDERS == <<"personal", "work", "home", "family", "health", "finance">>
FolderName(w) ==
    CASE w = "personal" -> "Personal" [] w = "work" -> "Work" [] w = "home" -> "Home"
      [] w = "family" -> "Family" [] w = "health" -> "Health" [] w = "finance" -> "Finance"
detect_folder(t) ==
    LET hits == {j \in 1 .. Len(KNOWN_FOLDERS) : \E i \in 1 .. Len(t) : t[i] = KNOWN_FOLDERS[j]}
    IN  IF hits = {} THEN Nothing ELSE <<FolderName(KNOWN_FOLDERS[MinOf(hits)])>>

detect_task_status(t) ==
    [completed |-> \E c \in { <<"done">>, <<"completed">>, <<"finished">>, <<"complete">> } :
                       KeywordIn(c, t),
     sequential |-> \E c \in { <<"sequential">>, <<"in", "order">>,
                               <<"one", "after", "another">>, <<"step", "by", "step">> } :
                       KeywordIn(c, t),
     reveal |-> ~ \E c \in { <<"hide">>, <<"don't", "show">>, <<"don't", "reveal">> } :
                       KeywordIn(c, t)]

\* each pattern with the cue phrases it accepts; a pattern takes the rest of
\* the text, so it matches at most once
dep_patterns ==
    << { <<"after", "completing">>, <<"after", "finishing">>, <<"after", "doing">> },
       { <<"depends", "on">> }, { <<"requires">> }, { <<"needs">> } >>
DepAt(t, j) == UNION {{[at |-> i, len |-> Len(c)] : i \in CueAt(t, c)} : c \in dep_patterns[j]}
RECURSIVE DepsFrom(_, _)
DepsFrom(t, j) ==
    IF j > Len(dep_patterns) THEN <<>>
    ELSE (IF DepAt(t, j) = {} THEN <<>>
          ELSE LET m == CHOOSE x \in DepAt(t, j) : \A y \in DepAt(t, j) : x.at <= y.at
               IN  <<Spaced(Rest(t, m.at + m.len))>>) \o DepsFrom(t, j + 1)
detect_dependencies(t) == DepsFrom(t, 1)

common_words == {"the", "a", "an", "this", "that", "there", "here", "it", "them"}
\* the location a pattern ("at" or "in") gives, Nothing if it gives none
LocationBy(t, c) ==
    LET location == SkipWord(AfterCue(t, <<c>>), "the")
    IN  IF Len(location) > 1 /\ ~ \A i \in 1 .. Len(location) : location[i] \in common_words
        THEN location ELSE Nothing
detect_location(t) ==
    IF LocationBy(t, "at") # Nothing THEN LocationBy(t, "at") ELSE LocationBy(t, "in")

energy_patterns ==
    << [level |-> "low",
        keywords |-> { <<"low", "energy">>, <<"easy">>, <<"simple">>, <<"quick">>, <<"light">> }],
       [level |-> "medium",
        keywords |-> { <<"medium", "energy">>, <<"moderate">>, <<"normal">> }],
       [level |-> "high",
        keywords |-> { <<"high", "energy">>, <<"intensive">>, <<"complex">>, <<"difficult">>,
                       <<"challenging">> }] >>
detect_energy_level(t) ==
    LET hits == {j \in 1 .. Len(energy_patterns) :
                    \E c \in energy_patterns[j].keywords : KeywordIn(c, t)}
    IN  IF hits = {} THEN Nothing ELSE <<energy_patterns[MinOf(hits)].level>>

\* the patterns without digits, in the order of the dictionary
repeat_patterns ==
    << [pattern |-> <<"daily">>, repeat |-> "daily"],
       [pattern |-> <<"every", "day">>, repeat |-> "daily"],
       [pattern |-> <<"weekly">>, repeat |-> "weekly"],
       [pattern |-> <<"every", "week">>, repeat |-> "weekly"],
       [pattern |-> <<"monthly">>, repeat |-> "monthly"],
       [pattern |-> <<"every", "month">>, repeat |-> "monthly"],
       [pattern |-> <<"yearly">>, repeat |-> "yearly"],
       [pattern |-> <<"every", "year">>, repeat |-> "yearly"] >>
parse_repeat_pattern(t) ==
    LET hits == {j \in 1 .. Len(repeat_patterns) : KeywordIn(repeat_patterns[j].pattern, t)}
        days == {i \in CueAt(t, <<"every">>) : IsWeekday(t[i + 1])}
    IN  IF hits # {} THEN <<repeat_patterns[MinOf(hits)].repeat>>
        ELSE IF days # {} THEN <<"weekly-" \o t[MinOf(days) + 1]>>
        ELSE Nothing

\* no word of Words is "bullet" or "point": cleaned_text has no " bullet "
parse_bullet_points(note) == Nothing

\* ---- tags and grocery lists
TagNames ==
    <<"admin", "Bicycle", "Coding", "Health", "Plan", "Read/Review",
      "Research", "Running", "Shopping", "Travel", "Watch", "Write",
      "Morning", "Afternoon", "Evening", "App/Service", "Communicate",
      "Device", "Errand", "Location", "Person">>

TAG_MAPPINGS ==
    [t \in {"admin"} |-> {"admin", "administration", "manage", "organize"}] @@
    [t \in {"Bicycle"} |-> {"bike", "bicycle", "cycling", "ride"}] @@
    [t \in {"Coding"} |-> {"code", "coding", "program", "programming", "develop", "script"}] @@
    [t \in {"Health"} |-> {"health", "doctor", "medical", "medicine", "workout", "exercise"}] @@
    [t \in {"Plan"} |-> {"plan", "planning", "schedule", "strategy"}] @@
    [t \in {"Read/Review"} |-> {"read", "review", "book", "article", "document"}] @@
    [t \in {"Research"} |-> {"research", "study", "investigate", "analyze"}] @@
    [t \in {"Running"} |-> {"run", "running", "jog", "jogging"}] @@
    [t \in {"Shopping"} |-> {"shop", "buy", "purchase", "store", "grocery"}] @@
    [t \in {"Travel"} |-> {"travel", "trip", "flight", "hotel", "vacation"}] @@
    [t \in {"Watch"} |-> {"watch", "view", "stream", "movie", "video"}] @@
    [t \in {"Write"} |-> {"write", "draft", "compose", "document"}] @@
    [t \in {"Morning"} |-> {"morning", "breakfast", "early", "am"}] @@
    [t \in {"Afternoon"} |-> {"afternoon", "lunch", "noon"}] @@
    [t \in {"Evening"} |-> {"evening", "night", "dinner", "pm"}] @@
    [t \in {"App/Service"} |-> {"app", "application", "service", "software", "website"}] @@
    [t \in {"Communicate"} |-> {"email", "call", "message", "contact", "meet", "chat"}] @@
    [t \in {"Device"} |-> {"phone", "computer", "laptop", "device", "hardware"}] @@
    [t \in {"Errand"} |-> {"errand", "task", "chore", "pickup", "dropoff"}] @@
    [t \in {"Location"} |-> {"at", "in", "location", "place", "where"}] @@
    [t \in {"Person"} |-> {"with", "person", "people", "team", "group"}]

\* the tags whose keywords occur in the text (no keyword has a space)
detect_tags(t) ==
    {TagNames[j] : j \in {j \in 1 .. Len(TagNames) :
        \E kw \in TAG_MAPPINGS[TagNames[j]] : \E i \in 1 .. Len(t) : kw \in Inside(t[i])}}

\* The order in which a set of strings is iterated follows the hashes of its
\* elements, and those follow the hash seed of the process.  Two of the orders
\* a seed can give: the order of TAG_MAPPINGS, and its reverse.
InOrder(S, names) == SelectSeq(names, LAMBDA x : x \in S)
Reverse(q) == [i \in 1 .. Len(q) |-> q[Len(q) + 1 - i]]
SetOrder(S, sd) == IF sd = 1 THEN InOrder(S, TagNames) ELSE Reverse(InOrder(S, TagNames))
\* ', '.join(detected_tags) if detected_tags else None
Wrap(q) == [i \in 1 .. Len(q) |-> <<q[i]>>]
JoinTags(S, sd) == Join(Wrap(SetOrder(S, sd)), ", ")

\* all_groceries: the items of every category
GROCERY_ITEMS ==
    {"tomatoes", "onions", "carrots", "potatoes", "broccoli", "lettuce",
     "spinach", "peppers", "cucumber", "celery", "radishes",
     "spring onions", "garlic", "ginger", "mushrooms", "cauliflower",
     "asparagus", "zucchini", "eggplant", "cabbage", "kale",
     "brussels sprouts", "green beans", "peas", "corn", "apples",
     "bananas", "oranges", "grapes", "strawberries", "blueberries",
     "raspberries", "blackberries", "pears", "peaches", "plums",
     "nectarines", "mangoes", "pineapple", "kiwi", "melons", "watermelon",
     "lemons", "limes", "milk", "cheese", "yogurt", "butter", "cream",
     "eggs", "sour cream", "cottage cheese", "cream cheese", "chicken",
     "beef", "pork", "lamb", "turkey", "bacon", "sausages", "ham", "fish",
     "salmon", "tuna", "shrimp", "bread", "rice", "pasta", "flour",
     "sugar", "salt", "pepper", "oil", "vinegar", "cereal", "oats",
     "beans", "lentils", "canned tomatoes", "spices", "herbs", "tea",
     "coffee", "honey", "jam", "peanut butter", "coriander", "cumin",
     "turmeric", "paprika", "cinnamon", "nutmeg", "cardamom", "cloves",
     "bay leaves", "oregano", "basil", "thyme", "rosemary", "sage", "mint",
     "chili"}
\* at least two different words of the text are grocery items
is_grocery_list(t) ==
    Cardinality({t[i] : i \in 1 .. Len(t)} \cap GROCERY_ITEMS) >= 2
\* the tag parse_task_attributes adds for a grocery list; nothing calls
\* parse_task_attributes
GroceryTag == "Location : Sainsbury"

\* ---- create_omnifocus_url
\* params is a dictionary that keeps insertion order: a sequence of [k, v]
HasKey(P, k) == \E i \in 1 .. Len(P) : P[i].k = k
Val(P, k) == IF HasKey(P, k) THEN P[CHOOSE i \in 1 .. Len(P) : P[i].k = k].v ELSE Nothing
\* params[k] = v
Put(P, k, v) ==
    IF HasKey(P, k) THEN [i \in 1 .. Len(P) |-> IF P[i].k = k THEN [k |-> k, v |-> v] ELSE P[i]]
    ELSE Append(P, [k |-> k, v |-> v])
\* if c: params[k] = v
PutIf(c, P, k, v) == IF c THEN Put(P, k, v) ELSE P
\* if kwargs.get(k): params[k] = kwargs[k], without the assignment
Override_keep(P, k, v) == IF v # Nothing /\ ~ HasKey(P, k) THEN Put(P, k, v) ELSE P
\* if kwargs.get(k): params[k] = kwargs[k]
Override(P, k, v) == IF v # Nothing THEN Put(P, k, v) ELSE P

Provenance == "Created via Voice Transcription"
\* no keyword arguments
NoKwargs ==
    [flag |-> FALSE, note |-> Nothing, context |-> Nothing, project |-> Nothing,
     estimate |-> Nothing, defer |-> Nothing, due |-> Nothing, folder |-> Nothing]

\* the notes list: the note of the caller first, then the detected one
notes_of(note_content, kw) ==
    (IF kw.note # Nothing THEN <<kw.note>> ELSE <<>>)
    \o (IF note_content = Nothing THEN <<>>
        ELSE IF parse_bullet_points(note_content) # Nothing
             THEN <<parse_bullet_points(note_content)>>
        ELSE <<Spaced(note_content)>>)

\* the params dictionary, from the extracted name and note and the dates d
\* parsed from the name
params_of(task_name, note_content, d, kw) ==
    LET notes == notes_of(note_content, kw)
        status == detect_task_status(task_name)
        dependencies == detect_dependencies(task_name)
        P1 == <<[k |-> "name", v |-> Spaced(task_name)]>>
        P2 == PutIf(d.defer # Nothing, P1, "defer", d.defer)
        P3 == PutIf(d.due # Nothing, P2, "due", d.due)
        P4 == PutIf(notes # <<>>, P3, "note", Join(notes, "\n\n"))
        P5 == PutIf(detect_project(task_name) # Nothing, P4, "project",
                    Spaced(detect_project(task_name)))
        P6 == PutIf(detect_folder(task_name) # Nothing, P5, "folder", detect_folder(task_name))
        P7 == PutIf(detect_parallel(task_name), P6, "parallel", <<"true">>)
        P8 == PutIf(detect_flag(task_name) \/ kw.flag, P7, "flag", <<"true">>)
        P9 == PutIf(parse_duration(task_name) # Nothing, P8, "estimate",
                    parse_duration(task_name))
        P10 == PutIf(status.completed, P9, "completed", <<"true">>)
        P11 == PutIf(~ status.reveal, P10, "reveal", <<"false">>)
        P12 == PutIf(status.sequential, P11, "sequential", <<"true">>)
        P13 == PutIf(dependencies # <<>>, P12, "dependencies", Join(dependencies, ","))
        P14 == PutIf(detect_location(task_name) # Nothing, P13, "context",
                     Spaced(detect_location(task_name)))
        P15 == PutIf(detect_energy_level(task_name) # Nothing, P14, "energy",
                     detect_energy_level(task_name))
        P16 == PutIf(parse_repeat_pattern(task_name) # Nothing, P15, "repeat",
                     parse_repeat_pattern(task_name))
        P17 == Override(P16, "project", kw.project)
        P18 == Override(P17, "context", kw.context)
        P19 == Override(P18, "estimate", kw.estimate)
        P20 == Override(P19, "defer", kw.defer)
    IN  Override(P20, "due", kw.due)
params_from(e, kw, current_day) ==
    params_of(e.name, e.note, parse_date_time(e.name, current_day), kw)
\* the params dictionary create_omnifocus_url encodes
omnifocus_params(t, kw, current_day) ==
    params_from(extract_task_name_and_note(t), kw, current_day)

\* urllib.parse.quote of one token: letters, digits and "_.-~/" are kept
QuoteTok(w) ==
    CASE w = " " -> "%20"
      [] w = ", " -> "%2C%20"
      [] w = "," -> "%2C"
      [] w = "\n\n" -> "%0A%0A"
      [] w = "05:00pm" -> "05%3A00pm"
      [] w = Provenance -> "Created%20via%20Voice%20Transcription"
      [] OTHER -> w
RECURSIVE Quote(_)
Quote(v) == IF Len(v) = 0 THEN "" ELSE QuoteTok(v[1]) \o Quote(Tail(v))
RECURSIVE Encoded(_)
Encoded(P) ==
    IF Len(P) = 0 THEN ""
    ELSE P[1].k \o "=" \o Quote(P[1].v) \o (IF Len(P) > 1 THEN "&" ELSE "") \o Encoded(Tail(P))
\* the url create_omnifocus_url returns for the params dictionary P
UrlOf(P) == "omnifocus:///add?" \o Encoded(P)

\* ---- the two callers
\* the keyword arguments of process_transcript_to_url
PipelineKwargs(t, sd) ==
    [NoKwargs EXCEPT !.flag = TRUE, !.note = <<Provenance>>,
                     !.context = JoinTags(detect_tags(t), sd),
                     !.folder = detect_folder(t)]
\* a caller that names the project itself
OverrideProject == "beta"
DirectKwargs == [NoKwargs EXCEPT !.project = <<OverrideProject>>]

pipeVars == <<now, text, pc, cur, fsVars, lockVars, cacheVars, loopVars, histVars, invVars,
              track>>

\* process_transcript_to_url, from the detection of tags to the finished url
process_transcript_to_url_url(k) ==
    /\ epc[k] = "start" /\ caller = "pipeline"
    /\ \E kw \in {PipelineKwargs(utter, seed[k])} :
       \E P \in {omnifocus_params(utter, kw, weekday)} :
          /\ params' = Set(params, k, P)
          /\ url' = Set(url, k, UrlOf(P))
    /\ epc' = Set(epc, k, "built")
    /\ UNCHANGED <<utter, weekday, caller, seed, pipeVars>>

\* create_omnifocus_url called with an explicit project
create_omnifocus_url_direct(k) ==
    /\ epc[k] = "start" /\ caller = "direct"
    /\ \E P \in {omnifocus_params(utter, DirectKwargs, weekday)} :
          /\ params' = Set(params, k, P)
          /\ url' = Set(url, k, UrlOf(P))
    /\ epc' = Set(epc, k, "built")
    /\ UNCHANGED <<utter, weekday, caller, seed, pipeVars>>

\* One utterance and the runs that build its command.  Utterances about dates
\* are built once on each day of the week; utterances about tasks are built by
\* two process runs, each with a hash seed of its own.
EngineInit ==
    /\ now = 0 /\ track = FALSE
    /\ pc = [p \in Procs |-> "off"]
    /\ text = [r \in Recs |-> TextA]
    /\ icloud = {} /\ remoteAudio = {}
    /\ FreshState
    /\ params = [k \in Runs |-> <<>>]
    /\ url = [k \in Runs |-> ""]
    /\ \/ /\ utter \in Utterances(DateWords)
          /\ weekday \in 0 .. 6
          /\ caller = "pipeline"
          /\ seed = [k \in Runs |-> 1]
          /\ epc = [k \in Runs |-> IF k = 1 THEN "start" ELSE "off"]
       \/ /\ utter \in Utterances(TaskWords)
          /\ weekday = 0
          /\ caller \in {"pipeline", "direct"}
          /\ seed \in {s \in [Runs -> Seeds] : s[1] = 1}
          /\ epc = [k \in Runs |-> "start"]
EngineNext ==
    \E k \in Runs : process_transcript_to_url_url(k) \/ create_omnifocus_url_direct(k)
EngineSpec == EngineInit /\ [][EngineNext]_vars

built == {k \in Runs : epc[k] = "built"}

\* ------------------------------------------------------ claims C12 .. C18
\* what the runs of the engine worked on
name_candidate == extract_task_name_and_note(utter).name
detected_note == extract_task_name_and_note(utter).note
WordsOf(t) == {t[i] : i \in 1 .. Len(t)}

\* C12: for every utterance, the empty one and those that consist of or begin
\* with a note cue included, the name key of the built command is non-empty.
C12_NameNeverEmpty ==
    \A k \in built : Val(params[k], "name") # Nothing

\* the weekdays the text names with next, on or this
NamedWeekdays(t) ==
    {WeekdayOf(t[i + 1]) : i \in {i \in 1 .. Len(t) - 1 :
                                      t[i] \in {"next", "on", "this"} /\ IsWeekday(t[i + 1])}}
\* the date-time value the command carries, defer or due
DateValue(k) ==
    IF Val(params[k], "defer") # Nothing THEN Val(params[k], "defer") ELSE Val(params[k], "due")

DateOrTime(t) ==
    \/ \E i \in 1 .. Len(t) : IsTime(t[i]) \/ t[i] \in {"today", "tomorrow"}
    \/ NamedWeekdays(t) # {}
\* a defer cue word occurs in the text, at any place
CueAnywhere(t) == WordsOf(t) \cap defer_patterns # {}
\* a defer cue word occurs in the text and is not its last word
CueBeforeEnd(t) == \E i \in 1 .. Len(t) - 1 : t[i] \in defer_patterns

\* C14 as stated: parse_date_time never returns both values; with a date or
\* time detected it returns defer alone when a defer cue occurs anywhere in the
\* name candidate and due alone when none occurs; with nothing detected, neither.
C14_DeferOrDue_AsStated ==
    \A k \in built : caller = "pipeline" =>
        LET defer == Val(params[k], "defer")
            due == Val(params[k], "due")
        IN  /\ ~ (defer # Nothing /\ due # Nothing)
            /\ (DateOrTime(name_candidate) /\ CueAnywhere(name_candidate)) =>
                   (defer # Nothing /\ due = Nothing)
            /\ (DateOrTime(name_candidate) /\ ~ CueAnywhere(name_candidate)) =>
                   (due # Nothing /\ defer = Nothing)
            /\ ~ DateOrTime(name_candidate) => (defer = Nothing /\ due = Nothing)

\* C14, amended: the same, where a defer cue is a cue word that another word
\* follows; a cue word at the very end of the name candidate does not count.
C14_DeferOrDue ==
    \A k \in built : caller = "pipeline" =>
        LET defer == Val(params[k], "defer")
            due == Val(params[k], "due")
        IN  /\ ~ (defer # Nothing /\ due # Nothing)
            /\ (DateOrTime(name_candidate) /\ CueBeforeEnd(name_candidate)) =>
                   (defer # Nothing /\ due = Nothing)
            /\ (DateOrTime(name_candidate) /\ ~ CueBeforeEnd(name_candidate)) =>
                   (due # Nothing /\ defer = Nothing)
            /\ ~ DateOrTime(name_candidate) => (defer = Nothing /\ due = Nothing)

\* a date after a defer cue came out as defer, without a due
C14_Witness ==
    \E k \in built :
        /\ caller = "pipeline"
        /\ DateOrTime(name_candidate) /\ CueBeforeEnd(name_candidate)
        /\ Val(params[k], "defer") # Nothing /\ Val(params[k], "due") = Nothing

C16_DefaultsOnlyWhenUndetected ==
    \A k \in built :
        (caller = "pipeline" /\ detected_note # Nothing) =>
            Provenance \notin WordsOf(Val(params[k], "note"))

\* C17: two process runs on the same transcript and the same clock reading
\* build the same parameters, in the same order, and the same command string.
C17_Deterministic ==
    \A j \in built : \A k \in built :
        params[j] = params[k] /\ url[j] = url[k]

\* C18: for a transcript with at least two different grocery words, the tags of
\* the command built by the pipeline include the grocery location tag.
C18_GroceryTagAdded ==
    \A k \in built :
        (caller = "pipeline" /\ is_grocery_list(utter)) =>
            GroceryTag \in WordsOf(Val(params[k], "context"))

\* ------------------------------------------------------ claims C21 .. C27
\* C21: when process_via_ssh has returned success for a recording that came
\* from the drop location, no copy of its audio is left in the drop location,
\* in the local staging directory or on the remote host, unless the cleanup
\* logged a failure.
C21_RecordingDestroyed ==
    [][\A p \in started :
          (pc[p] = "pvsReturn" /\ origin[p] = "icloud" /\ result[p]
             /\ pc'[p] = "icloudLoop") =>
              /\ cur[p] \notin icloud'
              /\ cur[p] \notin staging'
              /\ cur[p] \in remoteAudio' => "cleanupFailed" \in ops[p]]_vars

\* C22: every read and every write of the recent-transcript cache file is
\* made by a process that holds the flock on the lock file at that moment.
C22_CacheUnderLock ==
    [][\A p \in started :
          (/\ \/ pc[p] = "readCache" /\ cur[p] \in localTx
              \/ pc[p] = "saveCache"
           /\ pc'[p] # pc[p]) => HoldsLock(p)]_vars

\* the timestamps of the entries the cache file holds
PersistedStamps(file) == {file[i].ts : i \in {i \in 1 .. Len(file) : file[i].ts # NoBar}}

\* C23: after every access of process_transcript_to_url to the cache, one that
\* finds a duplicate included, the cache file holds no entry whose timestamp
\* is 60 or more seconds older than the time of the access.
C23_CachePrunedOnAccess ==
    [][\A p \in started :
          /\ (pc[p] = "readCache" /\ cur[p] \in localTx /\ pc'[p] = "lockExit") =>
                 \A ts \in PersistedStamps(cacheFile') : now - ts < Window
          /\ (pc[p] = "saveCache" /\ pc'[p] = "dispatch") =>
                 \A ts \in PersistedStamps(cacheFile') : curTime[p] - ts < Window]_vars

\* between the os.open of FileLock.__enter__ and the os.remove of __exit__
InLockCode(p) ==
    pc[p] \in {"lockFlock", "lockExit", "lockClose", "lockRemove"} \cup Critical

\* C24 as stated: in every reachable state a lock file that exists is locked
\* by some process, and when no process is acquiring, holding or releasing
\* the lock the lock file does not exist.
C24_ExistsImpliesHeld ==
    /\ lockPath # 0 => \E p \in started : flockOwner[lockPath] = p
    /\ (\A p \in started : ~ InLockCode(p)) => lockPath = 0

\* C24, amended: a lock file that exists is open in some process that is
\* between its os.open and its os.remove (it holds the lock, is about to
\* request it, or is releasing it and has it open or is about to remove it),
\* and when no process is there the lock file does not exist.
C24_ExistsImpliesOpen ==
    /\ lockPath # 0 =>
          \E p \in started :
              /\ InLockCode(p) /\ lock_fd[p] = lockPath
              /\ (fdOpen[p] \/ pc[p] = "lockRemove")
    /\ (\A p \in started : ~ InLockCode(p)) => lockPath = 0

\* a holder has released the lock after a dispatch, nobody else is at the
\* lock, and the file is gone
C24_Witness ==
    \E p \in started :
        /\ pc[p] = "cleanupLocal" /\ exitPath[p] = "dispatched"
        /\ \A q \in started : ~ InLockCode(q)
        /\ lockPath = 0

\* the keyword arguments the caller of run k passed
kwargs_of(k) == IF caller = "pipeline" THEN PipelineKwargs(utter, seed[k]) ELSE DirectKwargs
OverrideKeys == {"project", "folder", "context", "estimate", "defer", "due", "note"}
Passed(kw, key) ==
    CASE key = "project" -> kw.project
      [] key = "folder" -> kw.folder
      [] key = "context" -> kw.context
      [] key = "estimate" -> kw.estimate
      [] key = "defer" -> kw.defer
      [] key = "due" -> kw.due
      [] key = "note" -> kw.note

\* C25: for every attribute for which the caller passes an override (project,
\* folder, context, estimate, defer, due, flag, note), the built command
\* carries the value of the caller under that key; in particular the folder
\* process_transcript_to_url passes is the folder of the command.
C25_OverridesWin ==
    \A k \in built :
        /\ \A key \in OverrideKeys :
               Passed(kwargs_of(k), key) # Nothing =>
                   Val(params[k], key) = Passed(kwargs_of(k), key)
        /\ kwargs_of(k).flag => Val(params[k], "flag") = <<"true">>

\* C26: whenever the location detector yields a value for a transcript the
\* pipeline processes, that value is the context of the built command; the
\* comma-joined list of the tag detector does not take its place.
C26_LocationKept ==
    \A k \in built :
        (caller = "pipeline" /\ detect_location(name_candidate) # Nothing) =>
            Val(params[k], "context") = Spaced(detect_location(name_candidate))

\* the recordings a command was dispatched for: every recording has a
\* transcript of its own, so a delivered text names its recording
DispatchedRecs == {r \in Recs : text[r] \in delivered}
DistinctTexts == \A r \in Recs : \A q \in Recs : text[r] = text[q] => r = q

\* C27: over a run, a recording results in at most one dispatched command:
\* no command is dispatched successfully for a recording for which one was
\* dispatched successfully before, whatever scan found it again.
C27_AtMostOneCommand ==
    [][\A p \in started :
          (DistinctTexts /\ pc[p] = "dispatch" /\ exitPath'[p] = "dispatched") =>
              cur[p] \notin DispatchedRecs]_vars

====
